---- MODULE Spec2Model ----
(***************************************************************************)
(* Model of the employee dashboard view (EmployeeGrid.tsx): the three      *)
(* pieces of filter state, the memoized filter pipeline, the department    *)
(* enumeration, the rows handed to the grid widget and the CSV export.     *)
(*                                                                         *)
(* JavaScript strings are sequences of one-character strings, so that      *)
(* toLowerCase, trim, includes, join and the formatters are computed       *)
(* character by character.  A number with one fractional digit             *)
(* (performanceRating) is held in tenths, and a hireDate is the calendar   *)
(* date that new Date(value) falls on in the viewer's time zone.           *)
(*                                                                         *)
(* The grid widget (ag-grid) is outside the repository: it is taken to     *)
(* hold the rows of its rowData prop, to report ready once, and to export  *)
(* one row per row it holds, each cell through processCellCallback.        *)
(***************************************************************************)
EXTENDS Integers, Sequences, FiniteSets, TLC

\* ------------------------------------------------------------------ bounds
MaxSearchLen == 2
MaxRecords == 3

\* ------------------------------------------------------- JavaScript strings
UpperCase == <<"A","B","C","D","E","F","G","H","I","J","K","L","M",
               "N","O","P","Q","R","S","T","U","V","W","X","Y","Z">>
LowerCase == <<"a","b","c","d","e","f","g","h","i","j","k","l","m",
               "n","o","p","q","r","s","t","u","v","w","x","y","z">>
DigitChars == <<"0","1","2","3","4","5","6","7","8","9">>

\* The characters in ascending UTF-16 code unit order.
CodeUnits == <<" ", "$", ",", ".", "/">> \o DigitChars \o <<"@">> \o UpperCase \o LowerCase

\* The position of each character in that order.
RECURSIVE CharCodesFrom(_)
CharCodesFrom(i) ==
  IF i = Len(CodeUnits) THEN CodeUnits[i] :> i
  ELSE (CodeUnits[i] :> i) @@ CharCodesFrom(i + 1)

CharCodeMap == CharCodesFrom(1)

CharCode(c) == CharCodeMap[c]

LowerOf(c) ==
  IF \E i \in 1..Len(UpperCase) : UpperCase[i] = c
  THEN LowerCase[CHOOSE i \in 1..Len(UpperCase) : UpperCase[i] = c]
  ELSE c

\* The lower-case form of each character.
RECURSIVE ToLowerFrom(_)
ToLowerFrom(i) ==
  IF i = Len(CodeUnits) THEN CodeUnits[i] :> LowerOf(CodeUnits[i])
  ELSE (CodeUnits[i] :> LowerOf(CodeUnits[i])) @@ ToLowerFrom(i + 1)

ToLowerMap == ToLowerFrom(1)

ToLowerChar(c) == ToLowerMap[c]

\* String.prototype.toLowerCase
ToLowerCase(s) == [i \in 1..Len(s) |-> ToLowerChar(s[i])]

IsWhitespace(c) == c = " "

RECURSIVE TrimStart(_)
TrimStart(s) ==
  IF s # <<>> /\ IsWhitespace(Head(s)) THEN TrimStart(Tail(s)) ELSE s

RECURSIVE TrimEnd(_)
TrimEnd(s) ==
  IF s # <<>> /\ IsWhitespace(s[Len(s)]) THEN TrimEnd(SubSeq(s, 1, Len(s) - 1)) ELSE s

\* String.prototype.trim
Trim(s) == TrimEnd(TrimStart(s))

\* String.prototype.includes
Includes(s, search) ==
  \E i \in 0..(Len(s) - Len(search)) : \A j \in 1..Len(search) : s[i + j] = search[j]

\* The default comparison of Array.prototype.sort: code unit order.
RECURSIVE StrLess(_, _)
StrLess(a, b) ==
  IF b = <<>> THEN FALSE
  ELSE IF a = <<>> THEN TRUE
  ELSE IF Head(a) # Head(b) THEN CharCode(Head(a)) < CharCode(Head(b))
  ELSE StrLess(Tail(a), Tail(b))

\* Array.prototype.join
RECURSIVE Join(_, _)
Join(arr, sep) ==
  IF arr = <<>> THEN <<>>
  ELSE IF Len(arr) = 1 THEN arr[1]
  ELSE arr[1] \o sep \o Join(Tail(arr), sep)

\* Decimal digits of a natural number.
RECURSIVE Digits(_)
Digits(n) ==
  IF n < 10 THEN <<DigitChars[n + 1]>>
  ELSE Digits(n \div 10) \o <<DigitChars[(n % 10) + 1]>>

\* ------------------------------------------------------- JavaScript values
Str(t) == [type |-> "string", str |-> t, num |-> 0]
Num(n) == [type |-> "number", str |-> <<>>, num |-> n]
Null == [type |-> "null", str |-> <<>>, num |-> 0]

\* Truthiness of a value used as a condition (params.value || ..., emp.manager && ...).
Truthy(v) ==
  CASE v.type = "null" -> FALSE
    [] v.type = "string" -> v.str # <<>>
    [] OTHER -> v.num # 0

\* ------------------------------------------------------------ the records
All == <<"A","l","l">>
Active == <<"A","c","t","i","v","e">>
Inactive == <<"I","n","a","c","t","i","v","e">>

\* The well-formed Employee objects the datasets are built from.  No code
\* assigns to a field of an Employee, and an array of employees holds
\* references to the objects: a reference is the object's position here.
EmployeePool == <<
  [id |-> 1, firstName |-> <<"A","n","n">>, lastName |-> <<"L","e","e">>,
   email |-> <<"a","n","n","@","x">>, department |-> <<"H","R">>,
   position |-> <<"R","e","p">>, salary |-> 95000,
   hireDate |-> [year |-> 2020, month |-> 1, day |-> 5], age |-> 30,
   location |-> <<"N","Y">>, performanceRating |-> 45, projectsCompleted |-> 3,
   isActive |-> TRUE, skills |-> << <<"E","x","c","e","l">> >>, manager |-> Null],
  [id |-> 2, firstName |-> <<"B","o">>, lastName |-> <<"K","i","m">>,
   email |-> <<"b","k","@","x">>, department |-> <<"E","n","g">>,
   position |-> <<"D","e","v">>, salary |-> 120500,
   hireDate |-> [year |-> 2019, month |-> 11, day |-> 23], age |-> 41,
   location |-> <<"L","A">>, performanceRating |-> 40, projectsCompleted |-> 12,
   isActive |-> FALSE, skills |-> << <<"G","o">> >>,
   manager |-> Str(<<"A","n","n">>)],
  [id |-> 3, firstName |-> <<"C","y">>, lastName |-> <<"D","i","n">>,
   email |-> <<"c","y","@","x">>, department |-> <<"E","n","g"," ","O","p","s">>,
   position |-> <<"S","R","E">>, salary |-> 8000,
   hireDate |-> [year |-> 2021, month |-> 7, day |-> 14], age |-> 25,
   location |-> <<"S","F">>, performanceRating |-> 38, projectsCompleted |-> 0,
   isActive |-> TRUE, skills |-> << <<"G","o">>, <<"R","u","s","t">> >>,
   manager |-> Str(<<"B","o">>)],
  [id |-> 4, firstName |-> <<"D","i">>, lastName |-> <<"F","a","y">>,
   email |-> <<"d","f","@","x">>, department |-> <<"e","n","g">>,
   position |-> <<"Q","A">>, salary |-> 1000000,
   hireDate |-> [year |-> 2018, month |-> 3, day |-> 1], age |-> 52,
   location |-> <<"R","o","m","e">>, performanceRating |-> 50, projectsCompleted |-> 7,
   isActive |-> FALSE, skills |-> << >>, manager |-> Null]
>>

RECURSIVE PickRecords(_, _)
PickRecords(S, i) ==
  IF i > Len(EmployeePool) THEN <<>>
  ELSE (IF i \in S THEN <<i>> ELSE <<>>) \o PickRecords(S, i + 1)

\* The object behind a reference.
Employee(ref) == EmployeePool[ref]

\* The static datasets the view may be built with: arrays of distinct
\* employees, so that ids are unique.
Datasets ==
  {PickRecords(S, 1) : S \in {T \in SUBSET (1..Len(EmployeePool)) : Cardinality(T) <= MaxRecords}}

\* The texts a search input event may carry.
SearchChars == {"O", " "}
SearchTexts == UNION {[1..n -> SearchChars] : n \in 0..MaxSearchLen}

StatusOptions == {All, Active, Inactive}

\* ------------------------------------------------- department enumeration
\* [...new Set(arr)]: the distinct elements, in order of first occurrence.
RECURSIVE Unique(_)
Unique(arr) ==
  IF arr = <<>> THEN <<>>
  ELSE LET init == Unique(SubSeq(arr, 1, Len(arr) - 1))
           last == arr[Len(arr)]
       IN IF \E i \in 1..Len(init) : init[i] = last THEN init ELSE Append(init, last)

RECURSIVE Insert(_, _)
Insert(sorted, x) ==
  IF sorted = <<>> THEN <<x>>
  ELSE IF StrLess(x, Head(sorted)) THEN <<x>> \o sorted
  ELSE <<Head(sorted)>> \o Insert(Tail(sorted), x)

\* Array.prototype.sort() without a comparator, on an array of strings.
RECURSIVE Sort(_)
Sort(arr) == IF arr = <<>> THEN <<>> ELSE Insert(Sort(Tail(arr)), Head(arr))

\* The departments memo: the option list, and the record array as the
\* computation leaves it (the sort is in place, on the fresh array of names).
departmentsMemo(data) ==
  LET uniqueDepts == Unique([i \in 1..Len(data) |-> Employee(data[i]).department])
  IN [departments |-> <<All>> \o Sort(uniqueDepts), employeeData |-> data]

\* ---------------------------------------------------------- filter pipeline
DepartmentStageIncludes(data, dept) ==
  IF dept # All
  THEN SelectSeq(data, LAMBDA emp :
         Includes(ToLowerCase(Employee(emp).department), ToLowerCase(dept)))
  ELSE data

DepartmentStage(data, dept) ==
  IF dept # All
  THEN SelectSeq(data, LAMBDA emp : Employee(emp).department = dept)
  ELSE data

RECURSIVE Reverse(_)
Reverse(arr) == IF arr = <<>> THEN <<>> ELSE Append(Reverse(Tail(arr)), Head(arr))

StatusStageReversed(data, status) ==
  IF status # All
  THEN LET isActive == status = Active
       IN Reverse(SelectSeq(data, LAMBDA emp : Employee(emp).isActive = isActive))
  ELSE data

StatusStage(data, status) ==
  IF status # All
  THEN LET isActive == status = Active
       IN SelectSeq(data, LAMBDA emp : Employee(emp).isActive = isActive)
  ELSE data

\* (emp.manager && emp.manager.toLowerCase().includes(searchLower)); threw is
\* set when the evaluation raises a TypeError.
ManagerClauseUnguarded(emp, searchLower) ==
  IF emp.manager.type = "string"
  THEN [threw |-> FALSE, value |-> Includes(ToLowerCase(emp.manager.str), searchLower)]
  ELSE [threw |-> TRUE, value |-> FALSE]

ManagerClause(emp, searchLower) ==
  [threw |-> FALSE,
   value |-> Truthy(emp.manager) /\ Includes(ToLowerCase(emp.manager.str), searchLower)]

\* The predicate of the global search: a chain of ||, evaluated left to right.
SearchPredicate(emp, searchLower) ==
  IF \/ Includes(ToLowerCase(emp.firstName), searchLower)
     \/ Includes(ToLowerCase(emp.lastName), searchLower)
     \/ Includes(ToLowerCase(emp.email), searchLower)
     \/ Includes(ToLowerCase(emp.department), searchLower)
     \/ Includes(ToLowerCase(emp.position), searchLower)
     \/ Includes(ToLowerCase(emp.location), searchLower)
  THEN [threw |-> FALSE, value |-> TRUE]
  ELSE LET m == ManagerClause(emp, searchLower)
       IN IF m.threw THEN m
          ELSE [threw |-> FALSE,
                value |-> \/ m.value
                          \/ \E k \in 1..Len(emp.skills) :
                               Includes(ToLowerCase(emp.skills[k]), searchLower)]

\* data.filter(emp => ...) with the search predicate.
RECURSIVE SearchFilter(_, _)
SearchFilter(data, searchLower) ==
  IF data = <<>> THEN [threw |-> FALSE, data |-> <<>>]
  ELSE LET p == SearchPredicate(Employee(Head(data)), searchLower)
           rest == SearchFilter(Tail(data), searchLower)
       IN IF p.threw \/ rest.threw THEN [threw |-> TRUE, data |-> <<>>]
          ELSE IF p.value THEN [threw |-> FALSE, data |-> <<Head(data)>> \o rest.data]
          ELSE rest

SearchStageNoTrim(data, search) ==
  IF search # <<>>
  THEN SearchFilter(data, ToLowerCase(search))
  ELSE [threw |-> FALSE, data |-> data]

SearchStageSkipFirst(data, search) ==
  IF Trim(search) # <<>>
  THEN LET r == SearchFilter(data, ToLowerCase(search))
       IN [threw |-> r.threw, data |-> IF r.data = <<>> THEN <<>> ELSE Tail(r.data)]
  ELSE [threw |-> FALSE, data |-> data]

SearchStage(data, search) ==
  IF Trim(search) # <<>>
  THEN SearchFilter(data, ToLowerCase(search))
  ELSE [threw |-> FALSE, data |-> data]

\* The body of the filteredData memo.
computeFilteredData(data, search, dept, status) ==
  SearchStage(StatusStage(DepartmentStage(data, dept), status), search)

\* The dependency array of the filteredData memo.
filteredDataDepsNoStatus(search, dept, status) == <<search, dept>>

filteredDataDeps(search, dept, status) == <<search, dept, status>>

\* The rowData prop of the grid widget.
rowDataUnfiltered(allData, filtered) == allData

rowData(allData, filtered) == filtered

\* ------------------------------------------------------------- formatters
RECURSIVE GroupThousands(_)
GroupThousands(digits) ==
  IF Len(digits) <= 3 THEN digits
  ELSE GroupThousands(SubSeq(digits, 1, Len(digits) - 3))
         \o <<",">> \o SubSeq(digits, Len(digits) - 2, Len(digits))

\* Intl.NumberFormat('en-US', {style: 'currency', currency: 'USD', 0 fraction
\* digits}).format(n), for a whole, non-negative n.
FormatCurrency(n) == <<"$">> \o GroupThousands(Digits(n))

\* Number.prototype.toFixed(1), for a number held in tenths.
ToFixed1(tenths) == Digits(tenths \div 10) \o <<".">> \o Digits(tenths % 10)

MonthShort == << <<"J","a","n">>, <<"F","e","b">>, <<"M","a","r">>, <<"A","p","r">>,
                 <<"M","a","y">>, <<"J","u","n">>, <<"J","u","l">>, <<"A","u","g">>,
                 <<"S","e","p">>, <<"O","c","t">>, <<"N","o","v">>, <<"D","e","c">> >>

\* new Date(v).toLocaleDateString('en-US'): month/day/year in digits.
ToLocaleDateString(date) ==
  Digits(date.month) \o <<"/">> \o Digits(date.day) \o <<"/">> \o Digits(date.year)

\* new Date(v).toLocaleDateString('en-US', {year: 'numeric', month: 'short',
\* day: 'numeric'}): "Jan 5, 2020".
ToLocaleDateStringShortMonth(date) ==
  MonthShort[date.month] \o <<" ">> \o Digits(date.day) \o <<",", " ">> \o Digits(date.year)

\* The columns of columnDefs, by field, in order.
Columns == <<"id", "firstName", "lastName", "email", "department", "position",
             "salary", "hireDate", "age", "location", "performanceRating",
             "projectsCompleted", "isActive", "skills", "manager">>

\* params.value of the columns whose value is passed through as it is.
CellValue(field, emp) ==
  CASE field \in {"id", "age", "projectsCompleted"} -> Num(emp[field])
    [] field = "manager" -> emp.manager
    [] OTHER -> Str(emp[field])

\* The valueFormatter of a column (the value of the column without one).
valueFormatter(field, emp) ==
  CASE field = "salary" -> Str(FormatCurrency(emp.salary))
    [] field = "hireDate" -> Str(ToLocaleDateStringShortMonth(emp.hireDate))
    [] field = "performanceRating" -> Str(ToFixed1(emp.performanceRating))
    [] field = "isActive" -> Str(IF emp.isActive THEN Active ELSE Inactive)
    [] field = "skills" -> Str(Join(emp.skills, <<",", " ">>))
    [] field = "manager" ->
         IF Truthy(emp.manager) THEN emp.manager ELSE Str(<<"N","o","n","e">>)
    [] OTHER -> CellValue(field, emp)

\* The processCellCallback of the export.
processCellCallback(field, emp) ==
  CASE field = "skills" -> Str(Join(emp.skills, <<",", " ">>))
    [] field = "isActive" -> Str(IF emp.isActive THEN Active ELSE Inactive)
    [] field = "salary" -> Str(FormatCurrency(emp.salary))
    [] field = "hireDate" -> Str(ToLocaleDateString(emp.hireDate))
    [] field = "performanceRating" -> Str(ToFixed1(emp.performanceRating))
    [] OTHER -> CellValue(field, emp)

\* ------------------------------------------------------------------ export
FileName == <<"e","m","p","l","o","y","e","e","-","d","a","t","a",".","c","s","v">>

NoApi == "null"
GridApi == "api"
NoDownload == [fileName |-> <<>>, rows |-> <<>>]

\* gridApi.exportDataAsCsv: one row of cells per row of the grid.
exportDataAsCsv(rows) ==
  [fileName |-> FileName,
   rows |-> [i \in 1..Len(rows) |->
              [c \in 1..Len(Columns) |-> processCellCallback(Columns[c], Employee(rows[i]))]]]

\* exportToCsv: the download it leaves behind.
exportToCsv(api, rows, previous) ==
  IF api # NoApi THEN exportDataAsCsv(rows) ELSE previous

\* ------------------------------------------------------------------- state
VARIABLES
  employeeData,      \* the record array of data/employeeData
  mounted,           \* the component has rendered once
  searchText, departmentFilter, statusFilter,   \* useState, lines 12-14
  gridApi,           \* useState, line 11
  departments,       \* the departments memo
  filteredData,      \* the value of the filteredData memo
  memoDeps,          \* the dependencies the memo was last computed with
  gridRowData,       \* the rows the grid widget holds (its rowData prop)
  renderError,       \* a render raised an exception
  download,          \* the file the last export produced
  lastEvent          \* the event handled last

vars == <<employeeData, mounted, searchText, departmentFilter, statusFilter, gridApi,
          departments, filteredData, memoDeps, gridRowData, renderError, download,
          lastEvent>>

Init ==
  /\ employeeData \in Datasets
  /\ mounted = FALSE
  /\ searchText = <<>>
  /\ departmentFilter = All
  /\ statusFilter = All
  /\ gridApi = NoApi
  /\ departments = <<>>
  /\ filteredData = <<>>
  /\ memoDeps = <<>>
  /\ gridRowData = <<>>
  /\ renderError = FALSE
  /\ download = NoDownload
  /\ lastEvent = "none"

\* One render of the component with the given state: the filteredData memo is
\* recomputed when a dependency changed, and the grid receives rowData.
Render(data, search, dept, status) ==
  LET deps == filteredDataDeps(search, dept, status)
  IN \E r \in {IF ~mounted \/ deps # memoDeps
                THEN computeFilteredData(data, search, dept, status)
                ELSE [threw |-> FALSE, data |-> filteredData]} :
       /\ memoDeps' = deps
       /\ renderError' = r.threw
       /\ filteredData' = r.data
       /\ gridRowData' = rowData(data, r.data)

Live == mounted /\ ~renderError

\* First render: the departments memo and the filteredData memo are computed.
Mount ==
  /\ ~mounted
  /\ mounted' = TRUE
  /\ LET e == departmentsMemo(employeeData)
     IN /\ departments' = e.departments
        /\ employeeData' = e.employeeData
        /\ Render(e.employeeData, searchText, departmentFilter, statusFilter)
  /\ lastEvent' = "mount"
  /\ UNCHANGED <<searchText, departmentFilter, statusFilter, gridApi, download>>

OnGridReady ==
  /\ Live
  /\ gridApi = NoApi
  /\ gridApi' = GridApi
  /\ Render(employeeData, searchText, departmentFilter, statusFilter)
  /\ lastEvent' = "gridReady"
  /\ UNCHANGED <<employeeData, mounted, searchText, departmentFilter, statusFilter,
                 departments, download>>

SetSearchTextResetsFilters ==
  \E value \in SearchTexts :
    /\ Live
    /\ searchText' = value
    /\ departmentFilter' = All
    /\ Render(employeeData, value, All, statusFilter)
    /\ lastEvent' = "search"
    /\ UNCHANGED <<employeeData, mounted, statusFilter, gridApi, departments, download>>

SetSearchText ==
  \E value \in SearchTexts :
    /\ Live
    /\ searchText' = value
    /\ Render(employeeData, value, departmentFilter, statusFilter)
    /\ lastEvent' = "search"
    /\ UNCHANGED <<employeeData, mounted, departmentFilter, statusFilter, gridApi,
                   departments, download>>

SetDepartmentFilter ==
  \E k \in 1..Len(departments) :
    /\ Live
    /\ departmentFilter' = departments[k]
    /\ Render(employeeData, searchText, departments[k], statusFilter)
    /\ lastEvent' = "department"
    /\ UNCHANGED <<employeeData, mounted, searchText, statusFilter, gridApi,
                   departments, download>>

SetStatusFilter ==
  \E value \in StatusOptions :
    /\ Live
    /\ statusFilter' = value
    /\ Render(employeeData, searchText, departmentFilter, value)
    /\ lastEvent' = "status"
    /\ UNCHANGED <<employeeData, mounted, searchText, departmentFilter, gridApi,
                   departments, download>>

ExportToCsv ==
  /\ Live
  /\ download' = exportToCsv(gridApi, gridRowData, download)
  /\ lastEvent' = "export"
  /\ UNCHANGED <<employeeData, mounted, searchText, departmentFilter, statusFilter,
                 gridApi, departments, filteredData, memoDeps, gridRowData, renderError>>

Next ==
  \/ Mount
  \/ OnGridReady
  \/ SetSearchText
  \/ SetDepartmentFilter
  \/ SetStatusFilter
  \/ ExportToCsv

Spec == Init /\ [][Next]_vars

\* ================================================================ claims
\* The filter result for the current values of the three fields.
CurrentFilter ==
  computeFilteredData(employeeData, searchText, departmentFilter, statusFilter).data

\* The records that reach the search stage in the current state.
BeforeSearch == StatusStage(DepartmentStage(employeeData, departmentFilter), statusFilter)

SearchActive == Trim(searchText) # <<>>

InSeq(x, arr) == \E i \in 1..Len(arr) : arr[i] = x

\* C1: in every reachable state of the mounted view the rows handed to the
\* grid are the filter of the full record array by the current searchText,
\* departmentFilter and statusFilter, never a result of earlier values.
RowDataIsCurrentFilter ==
  mounted => /\ filteredData = CurrentFilter
             /\ gridRowData = CurrentFilter

\* C1 witness: all three fields have been changed and the grid shows a strict,
\* non-empty part of the records.
RowDataWitness ==
  /\ mounted
  /\ SearchActive /\ departmentFilter # All /\ statusFilter # All
  /\ gridRowData # <<>>
  /\ Len(gridRowData) < Len(employeeData)

\* A record has the needle in one of the searched fields (manager only when present).
AnyFieldContains(emp, needle) ==
  \/ \E f \in {"firstName", "lastName", "email", "department", "position", "location"} :
       Includes(ToLowerCase(emp[f]), needle)
  \/ emp.manager.type = "string" /\ Includes(ToLowerCase(emp.manager.str), needle)
  \/ \E k \in 1..Len(emp.skills) : Includes(ToLowerCase(emp.skills[k]), needle)

\* C2 (as claimed): whenever the search text is non-empty after trimming, the
\* records kept by the search stage are exactly those with the TRIMMED,
\* lower-cased search text in one of the searched fields.
SearchUsesTrimmedText ==
  (mounted /\ SearchActive) =>
    filteredData =
      SelectSeq(BeforeSearch,
                LAMBDA e : AnyFieldContains(Employee(e), ToLowerCase(Trim(searchText))))

\* The rows of a file are the rows of the given records, by id and in order.
RowsOf(file, records) ==
  /\ Len(file.rows) = Len(records)
  /\ \A i \in 1..Len(records) : file.rows[i][1] = Num(Employee(records[i]).id)

\* C3 (as claimed): whenever the export action was triggered, a download named
\* employee-data.csv exists with one row per record of the current filter.
ExportAlwaysDownloads ==
  (mounted /\ lastEvent = "export") =>
    /\ download.fileName = FileName
    /\ RowsOf(download, CurrentFilter)

\* C3 (amended): an export triggered once the grid is ready produces
\* employee-data.csv with one row per record of the current filter; an export
\* triggered before the grid is ready produces no download.
ExportWhenReadyDownloads ==
  (mounted /\ lastEvent = "export") =>
    IF gridApi # NoApi
    THEN /\ download.fileName = FileName
         /\ RowsOf(download, CurrentFilter)
    ELSE download = NoDownload

\* C3 witness: an export of a filtered, non-empty part of the records.
ExportWitness ==
  /\ lastEvent = "export"
  /\ gridApi # NoApi
  /\ download.rows # <<>>
  /\ Len(download.rows) < Len(employeeData)

\* C4 (as claimed): every cell of an export is the value the column's
\* formatter shows on screen for that record.
ExportMatchesScreen ==
  (mounted /\ lastEvent = "export" /\ gridApi # NoApi) =>
    \A i \in 1..Len(gridRowData) : \A c \in 1..Len(Columns) :
      download.rows[i][c] = valueFormatter(Columns[c], Employee(gridRowData[i]))

\* A record has the needle in a searched field other than manager.
OtherFieldContains(emp, needle) ==
  \/ \E f \in {"firstName", "lastName", "email", "department", "position", "location"} :
       Includes(ToLowerCase(emp[f]), needle)
  \/ \E k \in 1..Len(emp.skills) : Includes(ToLowerCase(emp.skills[k]), needle)

\* C5: no render fails, and a record without a manager that reaches the search
\* stage is kept exactly when a field other than manager has the search text
\* (every such record is kept when the search stage is off).
AbsentManagerNeverMatches ==
  mounted =>
    /\ ~renderError
    /\ \A i \in 1..Len(BeforeSearch) :
         Employee(BeforeSearch[i]).manager = Null =>
           (InSeq(BeforeSearch[i], filteredData) <=>
              (SearchActive =>
                 OtherFieldContains(Employee(BeforeSearch[i]), ToLowerCase(searchText))))

\* C5 witness: under an active search one record without a manager is kept
\* (by another field) and another one is dropped.
AbsentManagerWitness ==
  /\ mounted /\ SearchActive
  /\ \E i, j \in 1..Len(BeforeSearch) :
       /\ Employee(BeforeSearch[i]).manager = Null
       /\ Employee(BeforeSearch[j]).manager = Null
       /\ InSeq(BeforeSearch[i], filteredData)
       /\ ~InSeq(BeforeSearch[j], filteredData)

\* C6: filtering the filtered records again, with the same search text,
\* department and status, gives the same records.
FilterIdempotent ==
  mounted =>
    LET again == computeFilteredData(filteredData, searchText, departmentFilter,
                                     statusFilter)
    IN ~again.threw /\ again.data = filteredData

\* C6 witness: all three stages are on and keep a non-empty strict part.
IdempotentWitness ==
  /\ mounted
  /\ SearchActive /\ departmentFilter # All /\ statusFilter # All
  /\ filteredData # <<>>
  /\ Len(filteredData) < Len(employeeData)
  /\ lastEvent = "status"

RECURSIVE IsSubsequence(_, _)
IsSubsequence(a, b) ==
  IF a = <<>> THEN TRUE
  ELSE IF b = <<>> THEN FALSE
  ELSE IF Head(a) = Head(b) THEN IsSubsequence(Tail(a), Tail(b))
  ELSE IsSubsequence(a, Tail(b))

\* C7: the filtered records are a subsequence of the record array: each is a
\* record of the input, none twice, in the input's relative order.
FilteredIsSubsequence ==
  mounted =>
    /\ IsSubsequence(filteredData, employeeData)
    /\ \A i, j \in 1..Len(filteredData) : i # j => filteredData[i] # filteredData[j]

\* C7 witness: the first and the third of three records survive, the second not.
SubsequenceWitness ==
  /\ mounted
  /\ Len(employeeData) = 3
  /\ filteredData = <<employeeData[1], employeeData[3]>>

\* C8: with both selectors on "All", a search text that is empty after
\* trimming leaves the full record array, unchanged.
BlankSearchShowsAll ==
  (mounted /\ departmentFilter = All /\ statusFilter = All /\ ~SearchActive) =>
    /\ filteredData = employeeData
    /\ gridRowData = employeeData

\* C8 witness: a whitespace-only search text was entered over several records.
BlankSearchWitness ==
  /\ mounted /\ lastEvent = "search"
  /\ searchText # <<>> /\ ~SearchActive
  /\ departmentFilter = All /\ statusFilter = All
  /\ Len(employeeData) >= 2

\* C9: with a department selected, every record kept has exactly that
\* department, character for character.
DepartmentExactMatch ==
  (mounted /\ departmentFilter # All) =>
    \A i \in 1..Len(filteredData) :
      Employee(filteredData[i]).department = departmentFilter

\* C9 witness: a department is selected, a record of it is kept, and a record
\* whose department contains the selected name (ignoring case) is dropped.
DepartmentWitness ==
  /\ mounted /\ departmentFilter # All /\ statusFilter = All /\ ~SearchActive
  /\ filteredData # <<>>
  /\ \E i \in 1..Len(employeeData) :
       /\ Employee(employeeData[i]).department # departmentFilter
       /\ Includes(ToLowerCase(Employee(employeeData[i]).department),
                   ToLowerCase(departmentFilter))
       /\ ~InSeq(employeeData[i], filteredData)

\* C10: a search input changes only searchText among the three fields, a
\* department selection only departmentFilter, a status selection only
\* statusFilter, the export, the first render (with the department
\* enumeration) and the grid-ready event none of them; and no step changes the
\* record array.
FrameCondition ==
  [][/\ employeeData' = employeeData
     /\ lastEvent' = "search" =>
          departmentFilter' = departmentFilter /\ statusFilter' = statusFilter
     /\ lastEvent' = "department" =>
          searchText' = searchText /\ statusFilter' = statusFilter
     /\ lastEvent' = "status" =>
          searchText' = searchText /\ departmentFilter' = departmentFilter
     /\ lastEvent' \in {"export", "mount", "gridReady"} =>
          /\ searchText' = searchText
          /\ departmentFilter' = departmentFilter
          /\ statusFilter' = statusFilter]_vars

\* C10 witness: every kind of event has been handled: all three fields differ
\* from their defaults and an export has produced a download.
FrameWitness ==
  /\ lastEvent = "export"
  /\ download # NoDownload
  /\ searchText # <<>> /\ departmentFilter # All /\ statusFilter # All

====
